---- MODULE Spec2Model ----
(***************************************************************************)
(* A model of app-audit.py: main's loop over the module directories,       *)
(* gather_stats' walk of one directory, and the line-by-line content       *)
(* pass with its regular expressions.                                      *)
(*                                                                         *)
(* Text is modelled character by character: a Python str is a sequence of  *)
(* one-character strings, so that the regular expressions, Path.suffix and *)
(* str.lower() are computed the way the interpreter computes them.         *)
(***************************************************************************)
EXTENDS Integers, Sequences, FiniteSets, TLC

(***************************************************************************)
(* Characters and the character classes of Python's re module.            *)
(***************************************************************************)
NL == "\n"

TAB == "\t"

UpperCase ==
  << "A", "B", "C", "D", "E", "F", "G", "H", "I", "J", "K", "L", "M",
     "N", "O", "P", "Q", "R", "S", "T", "U", "V", "W", "X", "Y", "Z" >>

LowerCase ==
  << "a", "b", "c", "d", "e", "f", "g", "h", "i", "j", "k", "l", "m",
     "n", "o", "p", "q", "r", "s", "t", "u", "v", "w", "x", "y", "z" >>

Digits == { "0", "1", "2", "3", "4", "5", "6", "7", "8", "9" }

Range(s) == { s[i] : i \in DOMAIN s }

\* str.lower() on one character, also the case folding of re.IGNORECASE
LowerChar(c) ==
  IF \E i \in DOMAIN UpperCase : UpperCase[i] = c
  THEN LowerCase[CHOOSE i \in DOMAIN UpperCase : UpperCase[i] = c]
  ELSE c

\* str.lower()
Lower(s) == [i \in DOMAIN s |-> LowerChar(s[i])]

\* \w
IsWord(c) == c \in Range(UpperCase) \cup Range(LowerCase) \cup Digits \cup {"_"}

\* \s
IsSpace(c) == c \in { " ", TAB, NL, "\r", "\f" }

(***************************************************************************)
(* re.search.  A pattern is [bol, items, eol]: bol and eol are the anchors *)
(* ^ and $, items the sequence of quantified character classes between.    *)
(* An item is [k, ch, q]: k the class ("lit" a literal ch, "s" \s, "w" \w, *)
(* "W" \W, "dot" ., "nothash" [^#]), q the quantifier ("1", "*", "+").     *)
(* Every call in gather_stats passes re.IGNORECASE and none re.MULTILINE   *)
(* or re.DOTALL.                                                           *)
(***************************************************************************)
InClass(it, c) ==
  CASE it.k = "lit"     -> LowerChar(c) = LowerChar(it.ch)
    [] it.k = "s"       -> IsSpace(c)
    [] it.k = "w"       -> IsWord(c)
    [] it.k = "W"       -> ~IsWord(c)
    [] it.k = "dot"     -> c # NL
    [] it.k = "nothash" -> c # "#"

\* $ without re.MULTILINE: the end of the string, or just before a final newline
AtEnd(line, pos) ==
  \/ pos = Len(line) + 1
  \/ pos = Len(line) /\ line[pos] = NL

One(k) == << [k |-> k, ch |-> "", q |-> "1"] >>

Star(k) == << [k |-> k, ch |-> "", q |-> "*"] >>

Plus(k) == << [k |-> k, ch |-> "", q |-> "+"] >>

Lit(s) == [i \in DOMAIN s |-> [k |-> "lit", ch |-> s[i], q |-> "1"]]

LitPlus(c) == << [k |-> "lit", ch |-> c, q |-> "+"] >>

Rx(bol, items, eol) == [bol |-> bol, items |-> items, eol |-> eol]

RECURSIVE MatchFrom(_, _, _, _)
\* whether items k.. of the pattern (and its $ anchor) match line from pos on
MatchFrom(rx, k, line, pos) ==
  IF k > Len(rx.items)
  THEN rx.eol => AtEnd(line, pos)
  ELSE LET it == rx.items[k]
       IN  IF it.q = "1"
           THEN /\ pos <= Len(line)
                /\ InClass(it, line[pos])
                /\ MatchFrom(rx, k + 1, line, pos + 1)
           ELSE \E n \in (IF it.q = "+" THEN 1 ELSE 0) .. (Len(line) - pos + 1) :
                  /\ \A j \in pos .. (pos + n - 1) : InClass(it, line[j])
                  /\ MatchFrom(rx, k + 1, line, pos + n)

\* re.search(rx, line, re.IGNORECASE) is not None
Search(rx, line) ==
  \E s \in (IF rx.bol THEN {1} ELSE 1 .. (Len(line) + 1)) :
    MatchFrom(rx, 1, line, s)

(***************************************************************************)
(* The patterns of gather_stats, in the order of the source.               *)
(***************************************************************************)
\* r'^\s*#.*'
re_comment_start == Rx(TRUE, Star("s") \o Lit(<<"#">>) \o Star("dot"), FALSE)

\* r'Copyright'
re_copyright == Rx(FALSE, Lit(<<"C", "o", "p", "y", "r", "i", "g", "h", "t">>), FALSE)

\* r'All rights reserved'
re_all_rights ==
  Rx(FALSE, Lit(<<"A", "l", "l", " ", "r", "i", "g", "h", "t", "s", " ",
                  "r", "e", "s", "e", "r", "v", "e", "d">>), FALSE)

\* r'Use, modification'
re_use_modification ==
  Rx(FALSE, Lit(<<"U", "s", "e", ",", " ", "m", "o", "d", "i", "f", "i",
                  "c", "a", "t", "i", "o", "n">>), FALSE)

\* r'software is limit'
re_software_limit ==
  Rx(FALSE, Lit(<<"s", "o", "f", "t", "w", "a", "r", "e", " ", "i", "s", " ",
                  "l", "i", "m", "i", "t">>), FALSE)

\* r'^\s*#+$'
re_only_hash == Rx(TRUE, Star("s") \o LitPlus("#"), TRUE)

\* the blank pattern with its $ anchor forgotten: r'^\w*'
re_blank_unanchored == Rx(TRUE, Star("w"), FALSE)

\* r'^\w*$'
re_blank == Rx(TRUE, Star("w"), TRUE)

\* r'^[^#]+#+\s*\W.*$'
re_trailing_comment ==
  Rx(TRUE, Plus("nothash") \o LitPlus("#") \o Star("s") \o One("W") \o Star("dot"), TRUE)

\* r'.*function\s+\w+\(.*\)'
re_function ==
  Rx(FALSE, Star("dot") \o Lit(<<"f", "u", "n", "c", "t", "i", "o", "n">>) \o Plus("s")
            \o Plus("w") \o Lit(<<"(">>) \o Star("dot") \o Lit(<<")">>), FALSE)

\* r'.*prepare\s+\w+\s+from'
re_prepare ==
  Rx(FALSE, Star("dot") \o Lit(<<"p", "r", "e", "p", "a", "r", "e">>) \o Plus("s")
            \o Plus("w") \o Plus("s") \o Lit(<<"f", "r", "o", "m">>), FALSE)

\* r'.*execute\s+\w+\s+using'
re_execute ==
  Rx(FALSE, Star("dot") \o Lit(<<"e", "x", "e", "c", "u", "t", "e">>) \o Plus("s")
            \o Plus("w") \o Plus("s") \o Lit(<<"u", "s", "i", "n", "g">>), FALSE)

\* r'.*run\s+'
re_run == Rx(FALSE, Star("dot") \o Lit(<<"r", "u", "n">>) \o Plus("s"), FALSE)

\* r'.*mz\s+'
re_mz == Rx(FALSE, Star("dot") \o Lit(<<"m", "z">>) \o Plus("s"), FALSE)

\* the condition of the if that counts a '#' line as blank rather than comment
IsBoilerplate(line) ==
  \/ Search(re_copyright, line)
  \/ Search(re_all_rights, line)
  \/ Search(re_use_modification, line)
  \/ Search(re_software_limit, line)

B2N(b) == IF b THEN 1 ELSE 0

\* the counters at the top of the per-file block: all zero
ZeroCounts ==
  [ n_lines |-> 0, n_comment_lines |-> 0, n_blank_lines |-> 0,
    n_function_defines |-> 0, n_prepare_defines |-> 0,
    n_execute_statements |-> 0, n_run_statements |-> 0, n_mz_statements |-> 0 ]

\* one pass of the body of "for line in f": by how much the line raises each counter
LineEffect(line) ==
  LET hash    == Search(re_comment_start, line)
      boiler  == hash /\ IsBoilerplate(line)
      only    == hash /\ ~boiler /\ Search(re_only_hash, line)
      comment == hash /\ ~boiler /\ ~only
  IN  [ n_lines              |-> 1,
        n_comment_lines      |-> B2N(comment) + B2N(Search(re_trailing_comment, line)),
        n_blank_lines        |-> B2N(boiler) + B2N(only) + B2N(Search(re_blank, line)),
        n_function_defines   |-> B2N(Search(re_function, line)),
        n_prepare_defines    |-> B2N(Search(re_prepare, line)),
        n_execute_statements |-> B2N(Search(re_execute, line)),
        n_run_statements     |-> B2N(Search(re_run, line)),
        n_mz_statements      |-> B2N(Search(re_mz, line)) ]

\* the counters after the effect of one more line
Count(n, eff) == [f \in DOMAIN n |-> n[f] + eff[f]]

(***************************************************************************)
(* Paths.  A path yielded by root.rglob('*') is [parent, name, kind, err]: *)
(* parent is its directory relative to the root ("." for the root itself), *)
(* kind what the entry is on disk ("file", "dir", or "other" for a broken  *)
(* link or a device), err what the filesystem answers to the checks of the *)
(* loop ("none", "is_file": p.is_file() raises OSError, "stat": p.stat()   *)
(* raises OSError because the entry went away or cannot be read).          *)
(***************************************************************************)
Dot == <<".">>

Slash == <<"/">>

Makefile == <<"M", "a", "k", "e", "f", "i", "l", "e">>

\* the directory main runs in, against which root.resolve() resolves a relative root
Cwd == <<"/", "w">>

NoPath == [parent |-> <<>>, name |-> <<>>, kind |-> "none", err |-> "none"]

\* Path.resolve() of a relative path with no links and no dot components
Resolve(path) == Cwd \o Slash \o path

\* the index of the last c in s, 0 when there is none (str.rfind, counted from 1)
RFind(s, c) ==
  IF \E i \in DOMAIN s : s[i] = c
  THEN CHOOSE i \in DOMAIN s : s[i] = c /\ \A j \in DOMAIN s : s[j] = c => j <= i
  ELSE 0

\* PurePath.suffix: from the last dot on, unless the dot starts or ends the name
Suffix(name) ==
  LET i == RFind(name, ".")
  IN  IF 1 < i /\ i < Len(name) THEN SubSeq(name, i, Len(name)) ELSE <<>>

\* PurePath.name of a slash-separated path: what follows the last slash
BaseName(path) == SubSeq(path, RFind(path, "/") + 1, Len(path))

\* str(p.relative_to(root))
RelPath(q) == IF q.parent = Dot THEN q.name ELSE q.parent \o Slash \o q.name

plaintext_suffixes ==
  { <<".", "4", "g", "l">>, <<".", "e", "x", "t">>, <<".", "o", "r", "g">>,
    <<".", "s", "q", "l">>, <<".", "s", "e", "t">>, <<".", "R", "D", "S">>,
    <<".", "t", "x", "t">>, <<".", "m", "d">>, <<".", "c", "s", "v">>,
    <<".", "j", "s", "o", "n">>, <<".", "y", "a", "m", "l">>, <<".", "y", "m", "l">>,
    <<".", "i", "n", "i">>, <<".", "c", "f", "g">>, <<".", "p", "y">>,
    <<".", "p", "l">>, <<".", "s", "h">>, <<".", "b", "a", "s", "h">>,
    <<".", "k", "s", "h">>, <<".", "c">>, <<".", "h">>, <<".", "c", "p", "p">>,
    <<".", "h", "p", "p">>, <<".", "j", "s">>, <<".", "t", "s">>,
    <<".", "h", "t", "m", "l">>, <<".", "c", "s", "s">>, <<".", "x", "m", "l">>,
    <<".", "b", "a", "t">>, <<".", "c", "m", "d">>, <<".", "p", "h", "p">> }

\* the condition that guards the content pass
Eligible(q) == Lower(Suffix(q.name)) \in plaintext_suffixes \/ q.name = Makefile

\* "p.name in all_..._files": the name is compared with each whole path of the collection
InRepo(name, files) == name \in files

\* the loop body without its is_file() test: whatever can be stat'ed gets a record
SurvivingUnchecked(q) == q.err = "none"

\* whether the loop body gets past the try block of is_file() and stat()
Surviving(q) == q.kind = "file" /\ q.err = "none"

\* the dict appended to rows (the fields taken from st are left out: st is opaque here)
Row(rt, q, n, repo, tracked, local_mod, staged) ==
  [ abs_path              |-> rt \o Slash \o RelPath(q),
    rel_path              |-> RelPath(q),
    parent                |-> q.parent,
    name                  |-> q.name,
    suffix                |-> Suffix(q.name),
    num_lines             |-> n.n_lines,
    num_comment_lines     |-> n.n_comment_lines,
    num_blank_lines       |-> n.n_blank_lines,
    num_function_defines  |-> n.n_function_defines,
    num_prepare_defines   |-> n.n_prepare_defines,
    num_execute_statements |-> n.n_execute_statements,
    num_run_statements    |-> n.n_run_statements,
    num_mz_statements     |-> n.n_mz_statements,
    b_tracked_in_scm_repo |-> repo /\ InRepo(q.name, tracked),
    b_locally_modified    |-> repo /\ InRepo(q.name, local_mod),
    b_staged_for_commit   |-> repo /\ InRepo(q.name, staged),
    module                |-> <<>> ]

(***************************************************************************)
(* df.sort_values(["parent", "name"]): strings compare by code point.      *)
(***************************************************************************)
CodeOrder ==
  << TAB, NL, "\f", "\r", " ", "#", "(", ")", ",", ".", "/",
     "0", "1", "2", "3", "4", "5", "6", "7", "8", "9" >>
  \o UpperCase \o <<"_">> \o LowerCase

Ord(c) == CHOOSE i \in DOMAIN CodeOrder : CodeOrder[i] = c

RECURSIVE StrLess(_, _)
StrLess(a, b) ==
  IF b = <<>> THEN FALSE
  ELSE IF a = <<>> THEN TRUE
  ELSE IF Head(a) = Head(b) THEN StrLess(Tail(a), Tail(b))
  ELSE Ord(Head(a)) < Ord(Head(b))

\* r sorts strictly before s on (parent, name)
RowLess(r, s) ==
  \/ StrLess(r.parent, s.parent)
  \/ r.parent = s.parent /\ StrLess(r.name, s.name)

\* r put into the sorted df after the rows that do not sort after it
Insert(df, r) ==
  LET k == Cardinality({i \in DOMAIN df : ~RowLess(r, df[i])})
  IN  SubSeq(df, 1, k) \o <<r>> \o SubSeq(df, k + 1, Len(df))

RECURSIVE SortValues(_)
SortValues(rs) ==
  IF rs = <<>> THEN <<>>
  ELSE Insert(SortValues(SubSeq(rs, 1, Len(rs) - 1)), rs[Len(rs)])

\* df['module'] = root.name, done only when the frame has rows
WithModule(df, rootname) ==
  [i \in DOMAIN df |-> [df[i] EXCEPT !.module = BaseName(rootname)]]

RECURSIVE Concat(_)
\* pd.concat(all_dfs, ignore_index=True)
Concat(dfs) == IF dfs = <<>> THEN <<>> ELSE Head(dfs) \o Concat(Tail(dfs))

(***************************************************************************)
(* What the program is run on.  The command line is fixed when the program *)
(* starts; what the filesystem and the repository answer is drawn when the *)
(* program asks: whether a root is a directory, the repository state of a  *)
(* root, the next path of rglob, the next line of the open file.           *)
(* An environment E gives the sets these answers are drawn from:           *)
(*   argv        the lists of roots given on the command line              *)
(*   nogit, out  the values of --nogit and of --out ("" when absent)       *)
(*   is_dir      the answers of root.exists() and root.is_dir()            *)
(*   repos       the repository states one root can be found in            *)
(*   entries     the paths rglob can yield, max_entries how many at most   *)
(*   lines       the lines a file can hold, max_lines how many at most     *)
(***************************************************************************)
MaxRoots == 2

MaxEntries == 2

MaxLines == 2

MaxLineLen == 3

MaxScenarioLines == 3

\* the sequences over S of length at most k
UpTo(S, k) == UNION { [1 .. m -> S] : m \in 0 .. k }

m1 == <<"m", "1">>

m2 == <<"m", "2">>

\* the default of the roots argument
audittest_4gm == <<"a", "u", "d", "i", "t", "t", "e", "s", "t", ".", "4", "g", "m">>

sub == <<"s", "u", "b">>

a_txt == <<"a", ".", "t", "x", "t">>

b_RDS == <<"b", ".", "R", "D", "S">>

c_bin == <<"c", ".", "b", "i", "n">>

Entry(parent, name, kind, err) ==
  [parent |-> parent, name |-> name, kind |-> kind, err |-> err]

\* a repository state: whether Repo(root, search_parent_directories=True) finds a
\* repository, its working_tree_dir, and the repository-relative paths that
\* index.diff(None), index.diff("HEAD") and commit().tree.traverse() report
NoRepo ==
  [found |-> FALSE, working_tree_dir |-> <<>>, local_mod |-> {}, staged |-> {}, tracked |-> {}]

RepoAt(dir, local_mod, staged, tracked) ==
  [found |-> TRUE, working_tree_dir |-> dir,
   local_mod |-> local_mod, staged |-> staged, tracked |-> tracked]

\* lines as file iteration yields them: a body and the newline, which only the
\* last line of a file may lack
LinesOver(bodies) ==
  { b \o e : b \in bodies, e \in {<<NL>>, <<>>} } \ {<<>>}

Phrases ==
  { <<"C", "o", "p", "y", "r", "i", "g", "h", "t">>,
    <<"C", "O", "P", "Y", "R", "I", "G", "H", "T">>,
    <<"A", "l", "l", " ", "r", "i", "g", "h", "t", "s", " ", "r", "e", "s", "e", "r", "v", "e", "d">>,
    <<"U", "s", "e", ",", " ", "m", "o", "d", "i", "f", "i", "c", "a", "t", "i", "o", "n">>,
    <<"s", "o", "f", "t", "w", "a", "r", "e", " ", "i", "s", " ", "l", "i", "m", "i", "t", "e", "d">> }

BoilerplateLines ==
  { lead \o <<"#">> \o gap \o ph \o <<NL>> :
      lead \in {<<>>, <<" ">>, <<TAB>>}, gap \in {<<>>, <<" ">>}, ph \in Phrases }

StatementLines ==
  { <<"f", "u", "n", "c", "t", "i", "o", "n", " ", "f", "(", "a", ")", NL>>,
    <<"p", "r", "e", "p", "a", "r", "e", " ", "s", " ", "f", "r", "o", "m", " ", "q", NL>>,
    <<"e", "x", "e", "c", "u", "t", "e", " ", "s", " ", "u", "s", "i", "n", "g", " ", "a", NL>>,
    <<"m", "z", " ", "a", NL>>,
    <<"l", "e", "t", " ", "x", " ", "=", " ", "1", " ", "#", " ", "s", "e", "t", NL>> }

ScenarioLines ==
  { <<"C", "o", "p", "y", "r", "i", "g", "h", "t", " ", "2", "0", "2", "4", " ", "X", NL>>,
    <<NL>>,
    <<"r", "u", "n", " ", "j", "o", "b", "1">>,
    <<"r", "u", "n", " ", "j", "o", "b", "1", NL>>,
    <<"#", " ", "C", "o", "p", "y", "r", "i", "g", "h", "t", " ", "2", "0", "2", "4", " ", "X", NL>> }

ClassifyLines ==
  LinesOver(UpTo({" ", TAB, "#", "a"}, MaxLineLen)) \cup BoilerplateLines \cup StatementLines

WalkLines == { <<NL>>, <<" ", "#", " ", "x", NL>> }

\* one module directory, in or out of a repository, holding files of every kind
EnvWalk ==
  [ argv        |-> { <<m1>> },
    nogit       |-> BOOLEAN,
    out         |-> { <<>> },
    is_dir      |-> BOOLEAN,
    repos       |-> { NoRepo,
                      RepoAt(Cwd, {}, {}, { m1, m1 \o Slash \o a_txt }),
                      RepoAt(Resolve(m1), { a_txt }, { c_bin },
                             { a_txt, sub, sub \o Slash \o a_txt, c_bin }) },
    entries     |-> { Entry(Dot, a_txt, "file", "none"),
                      Entry(sub, a_txt, "file", "none"),
                      Entry(Dot, b_RDS, "file", "none"),
                      Entry(Dot, c_bin, "file", "none"),
                      Entry(Dot, sub, "dir", "none"),
                      Entry(Dot, a_txt, "file", "stat"),
                      Entry(Dot, c_bin, "other", "is_file") },
    max_entries |-> MaxEntries,
    lines       |-> WalkLines,
    max_lines   |-> MaxLines ]

\* any list of roots, each a directory or not when main comes to it
EnvMain ==
  [ argv        |-> UpTo({m1, m2}, MaxRoots),
    nogit       |-> { TRUE },
    out         |-> { <<>>, <<"o", ".", "c", "s", "v">>, <<"o", ".", "P", "Q">> },
    is_dir      |-> BOOLEAN,
    repos       |-> { NoRepo },
    entries     |-> { Entry(Dot, a_txt, "file", "none"), Entry(Dot, sub, "dir", "none") },
    max_entries |-> MaxEntries,
    lines       |-> { <<NL>> },
    max_lines   |-> MaxLines ]

\* one module directory holding the one file a.txt, made of the scenario's lines
EnvScenario ==
  [ argv        |-> { <<m1>> },
    nogit       |-> { TRUE },
    out         |-> { <<>> },
    is_dir      |-> BOOLEAN,
    repos       |-> { NoRepo },
    entries     |-> { Entry(Dot, a_txt, "file", "none") },
    max_entries |-> 1,
    lines       |-> ScenarioLines,
    max_lines   |-> MaxScenarioLines ]

\* one module directory holding one eligible file, of any lines
EnvClassify ==
  [ argv        |-> { <<m1>> },
    nogit       |-> { TRUE },
    out         |-> { <<>> },
    is_dir      |-> BOOLEAN,
    repos       |-> { NoRepo },
    entries     |-> { Entry(Dot, a_txt, "file", "none"), Entry(Dot, Makefile, "file", "none") },
    max_entries |-> 1,
    lines       |-> ClassifyLines,
    max_lines   |-> MaxLines ]

\* the effect of every line the environments hold, computed once
Effect ==
  [ line \in ClassifyLines \cup WalkLines \cup ScenarioLines \cup { <<NL>> } |->
      LineEffect(line) ]

(***************************************************************************)
(* The state.  Of main: roots, nogit, out (the parsed arguments), part,    *)
(* all_dfs, total_files, and what it leaves behind: stdout, stderr, the    *)
(* file written, the exit code (-1 while running, 0 when main returns).    *)
(* Of gather_stats: root, git_repo and the three cached collections of     *)
(* paths, rows, the loop variable p and the counters n of the content      *)
(* pass.  pc is where the program stands: "main" at the top of main's      *)
(* loop, "walk" at the top of the rglob loop, "read" at the top of the     *)
(* loop over the lines of p, "done" after the exit.                        *)
(* History, not read by the program: valid (what each root processed so    *)
(* far turned out to be), walked (the paths rglob has yielded for the      *)
(* current root), lines (the lines read from p so far) and read_error      *)
(* (the number of lines read when the read of p raised, -1 when it did     *)
(* not) and failed (the paths of the current root whose read raised).      *)
(***************************************************************************)
VARIABLES roots, nogit, out, pc, part, all_dfs, total_files, stdout, stderr,
          written, exit_code, root, git_repo, all_local_mod_files,
          all_staged_files, all_tracked_files, rows, p, n,
          valid, walked, lines, read_error, failed

vars ==
  << roots, nogit, out, pc, part, all_dfs, total_files, stdout, stderr,
     written, exit_code, root, git_repo, all_local_mod_files,
     all_staged_files, all_tracked_files, rows, p, n,
     valid, walked, lines, read_error, failed >>

mainVars == << roots, nogit, out, part, all_dfs, total_files, stdout, stderr, written, exit_code >>

repoVars == << root, git_repo, all_local_mod_files, all_staged_files, all_tracked_files >>

\* main up to the loop: the arguments parsed, nothing scanned
InitIn(E) ==
  /\ \E a \in E.argv : roots = IF a = <<>> THEN <<audittest_4gm>> ELSE a
  /\ nogit \in E.nogit
  /\ out \in E.out
  /\ pc = "main"
  /\ part = 0
  /\ all_dfs = <<>>
  /\ total_files = 0
  /\ stdout = <<>>
  /\ stderr = <<>>
  /\ written = <<>>
  /\ exit_code = -1
  /\ root = <<>>
  /\ git_repo = FALSE
  /\ all_local_mod_files = {}
  /\ all_staged_files = {}
  /\ all_tracked_files = {}
  /\ rows = <<>>
  /\ p = NoPath
  /\ n = ZeroCounts
  /\ valid = <<>>
  /\ walked = <<>>
  /\ lines = <<>>
  /\ read_error = -1
  /\ failed = {}

\* the invalid root handled with break in place of continue: the loop ends there
SkipRootBreak(E) ==
  /\ pc = "main"
  /\ part < Len(roots)
  /\ FALSE \in E.is_dir
  /\ part' = Len(roots)
  /\ stderr' = Append(stderr, [msg |-> "ERROR: root directory not found or not a directory:",
                               root |-> roots[part + 1]])
  /\ valid' = Append(valid, FALSE)
  /\ UNCHANGED << roots, nogit, out, pc, all_dfs, total_files, stdout, written, exit_code,
                  repoVars, rows, p, n, walked, lines, read_error, failed >>

\* a root that does not exist or is no directory: the diagnostic, and on to the next
SkipRoot(E) ==
  /\ pc = "main"
  /\ part < Len(roots)
  /\ FALSE \in E.is_dir
  /\ part' = part + 1
  /\ stderr' = Append(stderr, [msg |-> "ERROR: root directory not found or not a directory:",
                               root |-> roots[part + 1]])
  /\ valid' = Append(valid, FALSE)
  /\ UNCHANGED << roots, nogit, out, pc, all_dfs, total_files, stdout, written, exit_code,
                  repoVars, rows, p, n, walked, lines, read_error, failed >>

\* the paths of the repository r as the three collections hold them
AbsPaths(r, paths) == { r.working_tree_dir \o Slash \o x : x \in paths }

\* a root that is a directory: gather_stats up to its loop, the repository looked
\* for (unless --nogit) and its three collections computed
ScanRoot(E) ==
  /\ pc = "main"
  /\ part < Len(roots)
  /\ TRUE \in E.is_dir
  /\ part' = part + 1
  /\ valid' = Append(valid, TRUE)
  /\ root' = Resolve(roots[part + 1])
  /\ \E r \in E.repos :
       LET repo == IF nogit THEN NoRepo ELSE r
       IN  /\ git_repo' = repo.found
           /\ all_local_mod_files' = AbsPaths(repo, repo.local_mod)
           /\ all_staged_files' = AbsPaths(repo, repo.staged)
           /\ all_tracked_files' = AbsPaths(repo, repo.tracked)
  /\ rows' = <<>>
  /\ walked' = <<>>
  /\ p' = NoPath
  /\ n' = ZeroCounts
  /\ lines' = <<>>
  /\ read_error' = -1
  /\ failed' = {}
  /\ pc' = "walk"
  /\ UNCHANGED << roots, nogit, out, all_dfs, total_files, stdout, stderr, written, exit_code >>

\* rows.append({...}) for the path p with the counters n
Appended == Append(rows, Row(root, p, n, git_repo, all_tracked_files,
                                 all_local_mod_files, all_staged_files))

\* rglob yields one more path q: skipped unless a regular file whose checks pass;
\* then the content pass starts if q is eligible, else its all-zero record is appended
NextPath(E) ==
  /\ pc = "walk"
  /\ Len(walked) < E.max_entries
  /\ \E q \in E.entries :
       /\ \A i \in DOMAIN walked : RelPath(walked[i]) # RelPath(q)
       /\ walked' = Append(walked, q)
       /\ IF ~Surviving(q)
          THEN UNCHANGED << p, n, lines, read_error, rows, pc >>
          ELSE /\ p' = q
               /\ n' = ZeroCounts
               /\ lines' = <<>>
               /\ read_error' = -1
               /\ IF Eligible(q)
                  THEN pc' = "read" /\ rows' = rows
                  ELSE pc' = "walk"
                       /\ rows' = Append(rows, Row(root, q, ZeroCounts, git_repo,
                                            all_tracked_files, all_local_mod_files,
                                            all_staged_files))
  /\ UNCHANGED << mainVars, repoVars, valid, failed >>

\* whether a line ends with its newline: the last line of a file may not, and then
\* no line follows it
EndsLine(line) == line # <<>> /\ line[Len(line)] = NL

\* one more line of p: the body of "for line in f"
ReadLine(E) ==
  /\ pc = "read"
  /\ Len(lines) < E.max_lines
  /\ IF lines = <<>> THEN TRUE ELSE EndsLine(lines[Len(lines)])
  /\ \E line \in E.lines :
       /\ lines' = Append(lines, line)
       /\ n' = Count(n, Effect[line])
  /\ UNCHANGED << mainVars, repoVars, rows, p, pc, valid, walked, read_error, failed >>

\* the end of p: the record is appended
ReadEOF ==
  /\ pc = "read"
  /\ rows' = Appended
  /\ pc' = "walk"
  /\ UNCHANGED << mainVars, repoVars, p, n, valid, walked, lines, read_error, failed >>

\* the content pass without its except clause: the exception ends the program
ReadFailAbort ==
  /\ pc = "read"
  /\ read_error' = Len(lines)
  /\ failed' = failed \cup {RelPath(p)}
  /\ exit_code' = 1
  /\ pc' = "done"
  /\ UNCHANGED << roots, nogit, out, part, all_dfs, total_files, stdout, stderr, written,
                  repoVars, rows, p, n, valid, walked, lines >>

\* p.open or the read of the next line raises: the except clause, then the append
ReadFail ==
  /\ pc = "read"
  /\ read_error' = Len(lines)
  /\ failed' = failed \cup {RelPath(p)}
  /\ rows' = Appended
  /\ pc' = "walk"
  /\ UNCHANGED << mainVars, repoVars, p, n, valid, walked, lines >>

\* rglob is exhausted: gather_stats returns the sorted frame, and main's loop body
\* counts it, labels it with the module and keeps it
EndWalk ==
  /\ pc = "walk"
  /\ LET df == SortValues(rows)
         count == Len(df)
     IN  /\ total_files' = total_files + count
         /\ all_dfs' = Append(all_dfs, IF count > 0 THEN WithModule(df, roots[part]) ELSE df)
         /\ stdout' = Append(stdout, [scanned |-> roots[part], part |-> part,
                                      whole |-> Len(roots), files_found |-> count])
  /\ pc' = "main"
  /\ rows' = <<>>
  /\ p' = NoPath
  /\ n' = ZeroCounts
  /\ root' = <<>>
  /\ git_repo' = FALSE
  /\ all_local_mod_files' = {}
  /\ all_staged_files' = {}
  /\ all_tracked_files' = {}
  /\ UNCHANGED << roots, nogit, out, part, stderr, written, exit_code,
                  valid, walked, lines, read_error, failed >>

\* after the loop with nothing scanned: sys.exit(2)
ExitNoModules ==
  /\ pc = "main"
  /\ part = Len(roots)
  /\ all_dfs = <<>>
  /\ stderr' = Append(stderr, [msg |-> "No valid modules scanned.", root |-> <<>>])
  /\ exit_code' = 2
  /\ pc' = "done"
  /\ UNCHANGED << roots, nogit, out, part, all_dfs, total_files, stdout, written,
                  repoVars, rows, p, n, valid, walked, lines, read_error, failed >>

\* out_path.with_suffix('.csv')
WithCsvSuffix(path) ==
  SubSeq(path, 1, Len(path) - Len(Suffix(path))) \o <<".", "c", "s", "v">>

\* after the loop with something scanned: the table written if --out is given
\* (Parquet falling back to CSV when the write raises), the total printed
Finish ==
  /\ pc = "main"
  /\ part = Len(roots)
  /\ all_dfs # <<>>
  /\ IF out = <<>>
     THEN written' = written
     ELSE IF Lower(Suffix(out)) \in { <<".", "p", "a", "r", "q", "u", "e", "t">>, <<".", "p", "q">> }
          THEN \E ok \in BOOLEAN :
                 written' = << [path |-> IF ok THEN out ELSE WithCsvSuffix(out),
                                table |-> Concat(all_dfs)] >>
          ELSE written' = << [path |-> out, table |-> Concat(all_dfs)] >>
  /\ stdout' = Append(stdout, [scanned |-> <<>>, part |-> part, whole |-> Len(roots),
                               files_found |-> total_files])
  /\ exit_code' = 0
  /\ pc' = "done"
  /\ UNCHANGED << roots, nogit, out, part, all_dfs, total_files, stderr,
                  repoVars, rows, p, n, valid, walked, lines, read_error, failed >>

NextIn(E) ==
  \/ SkipRoot(E)
  \/ ScanRoot(E)
  \/ NextPath(E)
  \/ ReadLine(E)
  \/ ReadEOF
  \/ ReadFail
  \/ EndWalk
  \/ ExitNoModules
  \/ Finish

Init == InitIn(EnvWalk)

Next == NextIn(EnvWalk)

Spec == Init /\ [][Next]_vars

InitMain == InitIn(EnvMain)

NextMain == NextIn(EnvMain)

SpecMain == InitMain /\ [][NextMain]_vars

InitScenario == InitIn(EnvScenario)

NextScenario == NextIn(EnvScenario)

SpecScenario == InitScenario /\ [][NextScenario]_vars

InitClassify == InitIn(EnvClassify)

NextClassify == NextIn(EnvClassify)

SpecClassify == InitClassify /\ [][NextClassify]_vars

(***************************************************************************)
(* What the properties below speak of.                                     *)
(***************************************************************************)
\* the records of the root walked last: rows during the walk, the returned frame after
Records ==
  IF pc \in {"walk", "read"} THEN rows
  ELSE IF all_dfs = <<>> THEN <<>> ELSE all_dfs[Len(all_dfs)]

\* the counters of a record, under the names of the counters of the content pass
Counters(r) ==
  [ n_lines |-> r.num_lines, n_comment_lines |-> r.num_comment_lines,
    n_blank_lines |-> r.num_blank_lines, n_function_defines |-> r.num_function_defines,
    n_prepare_defines |-> r.num_prepare_defines,
    n_execute_statements |-> r.num_execute_statements,
    n_run_statements |-> r.num_run_statements, n_mz_statements |-> r.num_mz_statements ]

RECURSIVE CountAll(_)
\* the counters a pass over the lines ls must end with, each line taken on its own
CountAll(ls) ==
  IF ls = <<>> THEN ZeroCounts
  ELSE Count(CountAll(SubSeq(ls, 1, Len(ls) - 1)), LineEffect(ls[Len(ls)]))

\* the records of the path q among the records of the current root
RecordsOf(q) == { i \in DOMAIN Records : Records[i].rel_path = RelPath(q) }

\* the file whose content pass came last: the last path of walked that passed the checks
LastFile ==
  LET ok == { i \in DOMAIN walked : walked[i].kind = "file" /\ walked[i].err = "none" }
  IN  IF ok = {} THEN NoPath ELSE walked[CHOOSE i \in ok : \A j \in ok : j <= i]

\* the step reads one more line of p
ReadsALine == pc = "read" /\ pc' = "read" /\ Len(lines') = Len(lines) + 1

\* the phrase ph occurs in the line, whatever the case of the letters
Contains(line, ph) ==
  \E k \in 0 .. (Len(line) - Len(ph)) :
    \A i \in DOMAIN ph : LowerChar(line[k + i]) = LowerChar(ph[i])

\* the first character of the line that is no space or tab is '#'
StartsAsComment(line) ==
  \E i \in DOMAIN line :
    line[i] = "#" /\ \A j \in 1 .. (i - 1) : line[j] \in {" ", TAB}

\* the line is empty or holds spaces and tabs only (its newline aside)
WhitespaceOnly(line) == \A i \in DOMAIN line : line[i] \in {" ", TAB, NL}

(***************************************************************************)
(* C1.  The scenario of the one file a.txt with the lines                  *)
(* "Copyright 2024 X", "" and "run job1".                                  *)
(***************************************************************************)
\* the scan of the root is over, rglob yielded a.txt alone, and a.txt was read to
\* its end and held the three lines of the scenario (the last with or without newline)
ScenarioScanned ==
  /\ pc \in {"main", "done"}
  /\ walked = << Entry(Dot, a_txt, "file", "none") >>
  /\ read_error = -1
  /\ Len(lines) = 3
  /\ lines[1] = <<"C", "o", "p", "y", "r", "i", "g", "h", "t", " ", "2", "0", "2", "4", " ", "X", NL>>
  /\ lines[2] = <<NL>>
  /\ lines[3] \in { <<"r", "u", "n", " ", "j", "o", "b", "1">>,
                    <<"r", "u", "n", " ", "j", "o", "b", "1", NL>> }

\* C1 as claimed: the scenario yields one record with num_lines = 3,
\* num_blank_lines = 2, num_comment_lines = 0 and num_run_statements = 1
C1_ScenarioAsClaimed ==
  ScenarioScanned =>
    /\ Len(Records) = 1
    /\ Records[1].num_lines = 3
    /\ Records[1].num_blank_lines = 2
    /\ Records[1].num_comment_lines = 0
    /\ Records[1].num_run_statements = 1

\* C1 as amended: the scenario yields one record with num_lines = 3,
\* num_blank_lines = 1 (the empty line alone: "Copyright 2024 X" starts with no
\* '#' and holds spaces), num_comment_lines = 0 and num_run_statements = 1
C1_Scenario ==
  ScenarioScanned =>
    /\ Len(Records) = 1
    /\ Records[1].name = a_txt
    /\ Records[1].num_lines = 3
    /\ Records[1].num_blank_lines = 1
    /\ Records[1].num_comment_lines = 0
    /\ Records[1].num_run_statements = 1

C1_Witness == ScenarioScanned /\ exit_code = 0

(***************************************************************************)
(* C2.  A file of whitespace-only lines.                                   *)
(***************************************************************************)
\* C2: when an eligible file was read to its end and each of its lines is empty or
\* holds spaces and tabs only, its record has num_blank_lines = num_lines and
\* num_comment_lines = 0
C2_WhitespaceLinesAreBlank ==
  ( /\ pc = "walk"
    /\ p # NoPath
    /\ read_error = -1
    /\ lines # <<>>
    /\ \A i \in DOMAIN lines : WhitespaceOnly(lines[i]) )
  => \A i \in RecordsOf(p) :
       /\ Records[i].num_blank_lines = Records[i].num_lines
       /\ Records[i].num_comment_lines = 0

(***************************************************************************)
(* C3.  Blank and comment exclude each other line by line.                 *)
(***************************************************************************)
\* C3: no line raises both the blank and the comment counter: the two increases
\* that one line causes sum to at most 1
C3_BlankOrComment ==
  [][ ReadsALine =>
        (n'.n_blank_lines - n.n_blank_lines)
          + (n'.n_comment_lines - n.n_comment_lines) <= 1 ]_vars

(***************************************************************************)
(* C4.  Boilerplate comment lines.                                         *)
(***************************************************************************)
\* the line's first non-whitespace character is '#' and it holds a boilerplate phrase
BoilerplateComment(line) ==
  /\ StartsAsComment(line)
  /\ \/ Contains(line, <<"C", "o", "p", "y", "r", "i", "g", "h", "t">>)
     \/ Contains(line, <<"A", "l", "l", " ", "r", "i", "g", "h", "t", "s", " ",
                         "r", "e", "s", "e", "r", "v", "e", "d">>)
     \/ Contains(line, <<"U", "s", "e", ",", " ", "m", "o", "d", "i", "f", "i",
                         "c", "a", "t", "i", "o", "n">>)
     \/ Contains(line, <<"s", "o", "f", "t", "w", "a", "r", "e", " ", "i", "s", " ",
                         "l", "i", "m", "i", "t">>)

\* C4: a line whose first non-whitespace character is '#' and which holds a
\* boilerplate phrase raises num_blank_lines by exactly 1 and leaves
\* num_comment_lines as it is, whatever its leading whitespace
C4_BoilerplateIsBlank ==
  [][ (ReadsALine /\ BoilerplateComment(lines'[Len(lines')])) =>
        /\ n'.n_blank_lines = n.n_blank_lines + 1
        /\ n'.n_comment_lines = n.n_comment_lines ]_vars

(***************************************************************************)
(* C5.  The eligibility gate.                                              *)
(***************************************************************************)
\* the extension of the name equals a member of the recognized set in some letter case
Recognized(name) ==
  \E sfx \in plaintext_suffixes : Lower(sfx) = Lower(Suffix(name))

\* the step has rglob yield a regular file whose checks pass
YieldsAFile ==
  /\ pc = "walk"
  /\ Len(walked') = Len(walked) + 1
  /\ walked'[Len(walked')].kind = "file"
  /\ walked'[Len(walked')].err = "none"

\* C5: the gate is case-insensitive on the extension: a file is content-inspected
\* exactly when its extension equals a member of the recognized set ('.RDS'
\* included) in some letter case, or its name is "Makefile"
C5_GateIgnoresCase ==
  [][ YieldsAFile =>
        ( pc' = "read" <=>
            \/ Recognized(walked'[Len(walked')].name)
            \/ walked'[Len(walked')].name = Makefile ) ]_vars

(***************************************************************************)
(* C6.  The repository flags.                                              *)
(***************************************************************************)
\* some path of the collection ends in the path component name
NamedIn(name, files) == \E f \in files : BaseName(f) = name

\* C6: when a repository is found, a record's tracked (locally-modified, staged)
\* flag is true exactly when some path of the tracked (locally-modified, staged)
\* collection has the file's name as its last component
C6_FlagsMatchByName ==
  (pc \in {"walk", "read"} /\ git_repo) =>
    \A i \in DOMAIN rows :
      /\ rows[i].b_tracked_in_scm_repo <=> NamedIn(rows[i].name, all_tracked_files)
      /\ rows[i].b_locally_modified <=> NamedIn(rows[i].name, all_local_mod_files)
      /\ rows[i].b_staged_for_commit <=> NamedIn(rows[i].name, all_staged_files)

(***************************************************************************)
(* C7.  main over a list of roots, some of them no directories.            *)
(***************************************************************************)
RECURSIVE SumLen(_)
\* the number of records of the frames dfs together
SumLen(dfs) == IF dfs = <<>> THEN 0 ELSE Len(Head(dfs)) + SumLen(Tail(dfs))

\* the positions in roots of the roots that were directories
ValidParts == { i \in DOMAIN valid : valid[i] }

\* C7: main exits with code 2, nothing written, exactly when none of the roots it
\* went through is a directory; otherwise it returns with every root looked at,
\* each valid root scanned and reported once, each invalid root given its
\* diagnostic and nothing else, and the total printed is the sum of the record
\* counts of the valid roots.  (The roots are those main loops over: the ones
\* given, or the default root when none is given.)
C7_RootsAndExit ==
  pc = "done" =>
    /\ Len(valid) = Len(roots)
    /\ exit_code = 2 <=> ValidParts = {}
    /\ exit_code = 2 => written = <<>> /\ stdout = <<>> /\ all_dfs = <<>>
    /\ exit_code # 2 =>
         /\ exit_code = 0
         /\ Len(all_dfs) = Cardinality(ValidParts)
         /\ Len(stdout) = Cardinality(ValidParts) + 1
         /\ \A i \in ValidParts :
              \E j \in 1 .. (Len(stdout) - 1) :
                /\ stdout[j].part = i
                /\ stdout[j].scanned = roots[i]
                /\ stdout[j].files_found = Len(all_dfs[j])
         /\ Len(stderr) = Len(roots) - Cardinality(ValidParts)
         /\ \A i \in DOMAIN valid \ ValidParts :
              \E j \in DOMAIN stderr : stderr[j].root = roots[i]
         /\ stdout[Len(stdout)].files_found = SumLen(all_dfs)
         /\ out # <<>> => Len(written) = 1 /\ Len(written[1].table) = SumLen(all_dfs)

C7_Witness ==
  /\ pc = "done"
  /\ exit_code = 0
  /\ valid = << FALSE, TRUE >>
  /\ total_files = 1

(***************************************************************************)
(* C8.  A read that fails does not end the scan.                           *)
(***************************************************************************)
\* C8: when the read of an eligible file fails after k lines (k = 0: the open
\* fails), the file still has exactly one record, whose counters are those of the
\* first k lines, and the walk goes on: every file that survived the checks,
\* before or after the failure, has its record (or is the one being read)
C8_FailSoft ==
  /\ \A path \in failed :
       Cardinality({ i \in DOMAIN Records : Records[i].rel_path = path }) = 1
  /\ read_error >= 0 =>
       /\ read_error = Len(lines)
       /\ pc # "read"
       /\ \A i \in RecordsOf(LastFile) : Counters(Records[i]) = CountAll(lines)
       /\ RelPath(LastFile) \in failed
  /\ failed # {} => exit_code \in {-1, 0}
  /\ Len(Records) + B2N(pc = "read")
       = Cardinality({ i \in DOMAIN walked : Surviving(walked[i]) })

\* a file whose read failed after two lines has its record, and so has a later file
C8_Witness ==
  /\ pc = "walk"
  /\ Len(rows) = 2
  /\ rows[1].rel_path \in failed
  /\ rows[1].num_lines = 2
  /\ rows[2].rel_path \notin failed

(***************************************************************************)
(* C9.  One record per regular file whose checks pass.                     *)
(***************************************************************************)
\* the positions in walked of the regular files
RegularFiles == { i \in DOMAIN walked : walked[i].kind = "file" }

\* the positions in walked of the entries whose is_file() or stat() raised
CheckFailed == { i \in DOMAIN walked : walked[i].err # "none" }

\* C9: the records of a root number the regular files rglob yielded less those whose
\* is_file() or stat() raised; the other entries and the failed checks give no
\* record and do not end the walk, and no entry gives two records
C9_OneRecordPerFile ==
  /\ Len(Records) + B2N(pc = "read")
       = Cardinality(RegularFiles) - Cardinality(RegularFiles \cap CheckFailed)
  /\ \A i \in DOMAIN walked :
       LET mine == { j \in DOMAIN Records : Records[j].rel_path = RelPath(walked[i]) }
       IN  IF walked[i].kind = "file" /\ walked[i].err = "none"
           THEN Cardinality(mine) = B2N(~(pc = "read" /\ p = walked[i]))
           ELSE mine = {}
  /\ walked # <<>> => exit_code \in {-1, 0}

\* a file whose stat() raised gave no record, the file yielded after it gave its own
C9_Witness ==
  /\ pc = "walk"
  /\ Len(walked) = 2
  /\ walked[1].err = "stat"
  /\ walked[2].kind = "file" /\ walked[2].err = "none"
  /\ Len(rows) = 1

(***************************************************************************)
(* C10.  The counters of a record are bounded by its number of lines.      *)
(***************************************************************************)
\* C10: every content counter of every record is between 0 and num_lines
C10_CountersWithinLines ==
  \A i \in DOMAIN Records :
    LET c == Counters(Records[i])
    IN  \A f \in DOMAIN c : 0 <= c[f] /\ c[f] <= c.n_lines

====
